---- MODULE Spec2Model ----
(***************************************************************************)
(* Model of the self-registration workflow of back_ITDC_V1:                *)
(*   app/services/registration_service.py   (RegistrationService)          *)
(*   app/repositories/employe_repository.py (EmployeRepository)            *)
(*   app/services/employe_service.py        (EmployeService.create_employe)*)
(*   app/services/entreprise_service.py, app/services/poste_service.py     *)
(* The relational tables are the state; every service method is one        *)
(* action.  Time is counted in minutes.                                    *)
(***************************************************************************)
EXTENDS Integers, FiniteSets, Sequences, TLC

VARIABLES
    now,                   \* datetime.utcnow(), in minutes
    verification_code,     \* table verification_code: identifier -> row
    pending_registration,  \* table pending_registration: user_email -> row
    employe,               \* table employe
    entreprise,            \* table entreprise
    poste,                 \* table poste
    empreinte,             \* table empreinte
    active_connections,    \* NotificationManager.active_connections, per manager
    websockets,            \* the open /ws connections and their company_id
    passes,                \* the send_to_company calls in progress
    published,             \* the notification last handed to send_to_company
    called,                \* the send_to_company calls of the last step that made one
    response               \* what the last call returned to its caller

vars == <<now, verification_code, pending_registration, employe, entreprise,
          poste, empreinte, active_connections, websockets, passes, published,
          called, response>>

db == <<verification_code, pending_registration, employe, entreprise, poste,
        empreinte>>

\* The state of the two notification managers.
fanout == <<active_connections, websockets, passes, published, called>>

----------------------------------------------------------------------------
\* Bounds of the model.

MaxNow == 4
MaxPasses == 2       \* send_notification calls that may be in progress at once

\* Program constants.

CODE_TTL_MINUTES == 4
FINGERPRINT_TTL_MINUTES == 1440

\* The clock of the model advances by half the lifetime of a code.
TickMinutes == CODE_TTL_MINUTES \div 2

HTTP_200 == 200
HTTP_201 == 201
HTTP_400 == 400
HTTP_403 == 403
HTTP_404 == 404
HTTP_409 == 409
HTTP_429 == 429
HTTP_500 == 500
WS_CLOSE_4401 == 4401

\* Python's None.
None == "None"

\* Input domains.
UserEmails == {"A@x.com"}
ContactEmails == {"a@x.com", "b@x.com"}
EmployeeIds == {"E0", "E1"}
UserCodes == {"a1b2c3"}                \* secrets.token_hex(3): 6 hex digits
CompanyCodes == {"d4e5"}               \* secrets.token_hex(2): 4 hex digits
SubmittedCodes == UserCodes \cup CompanyCodes \cup {"000000"}
CompanyNames == {"Acme"}
FinalCompanyNames == {"Acme", ""}
Positions == {None, "Dev"}
GroupeIds == {None, "G1", "G9"}

\* str.lower() on the addresses and company ids of the model; str(None) is
\* "None".
Lower(email) ==
    CASE email = "A@x.com" -> "a@x.com"
      [] email = "Corp" -> "corp"
      [] email = "Acme" -> "acme"
      [] email = "None" -> "none"
      [] OTHER -> email

\* The two NotificationManager instances, in the order send_notification
\* calls them, and the connection objects of the model.
ManagerOrder == <<"web", "desktop">>
Managers == {"web", "desktop"}
Sockets == {"ws1", "ws2"}
TokenCompanies == {"", "Corp", "Acme"}
Frames == {"text", "bytes"}

Identifiers == {Lower(e) : e \in UserEmails \cup ContactEmails}

\* The durable rows of a deployment before the first registration call:
\* one company with one group and its administrator.
SeedEntreprise == [nom |-> "Corp", contact_email |-> "root@corp.com"]
SeedAdmin == [email |-> "root@corp.com", employeeId |-> "E0", role |-> "admin",
              idEntreprise |-> "Corp", idGroupe |-> None, idPoste |-> None]
groupe == {[idGroupe |-> "G1", idEntreprise |-> "Corp"]}

----------------------------------------------------------------------------
\* EmployeRepository: reads.

get_employe_by_email(email) ==
    {e \in employe : e.email = Lower(email)}

get_employe_by_employee_id(employee_id) ==
    {e \in employe : e.employeeId = employee_id}

get_groupe_by_id(id_groupe) ==
    {g \in groupe : g.idGroupe = id_groupe}

get_entreprise_by_name(name) ==
    {c \in entreprise : c.nom = name}

get_poste_by_name_and_company(nom, idEntreprise) ==
    {p \in poste : p.nom = nom /\ p.idEntreprise = idEntreprise}

\* Optional results are sets with at most one element; TheRow picks it.
TheRow(rows) == CHOOSE r \in rows : TRUE

\* CompanyInfo that was never stored (company_info_json IS NULL).
NoCompanyInfo == [companyName |-> None, companyContactEmail |-> None]

\* A row is returned only while expires_at > now.
get_verification_code_Unexpiring(email) ==
    LET identifier == Lower(email)
    IN  IF identifier \in DOMAIN verification_code
        THEN verification_code[identifier].code
        ELSE None

get_verification_code_Inclusive(email) ==
    LET identifier == Lower(email)
    IN  IF /\ identifier \in DOMAIN verification_code
           /\ verification_code[identifier].expires_at >= now
        THEN verification_code[identifier].code
        ELSE None

get_verification_code(email) ==
    LET identifier == Lower(email)
    IN  IF /\ identifier \in DOMAIN verification_code
           /\ verification_code[identifier].expires_at > now
        THEN verification_code[identifier].code
        ELSE None

get_pending_registration(user_email) ==
    LET key == Lower(user_email)
    IN  IF /\ key \in DOMAIN pending_registration
           /\ pending_registration[key].expires_at > now
        THEN {pending_registration[key]}
        ELSE {}

\* EmployeRepository: writes, as the new content of the table.

DeleteRow(table, key) == [k \in DOMAIN table \ {key} |-> table[k]]

PutRow(table, key, row) ==
    [k \in DOMAIN table \cup {key} |-> IF k = key THEN row ELSE table[k]]

set_verification_code_Dropped(email, code, expires_in_minutes) ==
    verification_code

set_verification_code(email, code, expires_in_minutes) ==
    PutRow(verification_code, Lower(email),
           [code |-> code, expires_at |-> now + expires_in_minutes])

delete_verification_code_Kept(email) ==
    verification_code

delete_verification_code(email) ==
    DeleteRow(verification_code, Lower(email))

add_pending_registration_Skipped(table, user_email, personal_info, expires_at) ==
    table

\* Upsert: an existing row keeps company_info_json and role_assigned; a new
\* row gets the column defaults (no company_info_json, role "employee").
add_pending_registration(table, user_email, personal_info, expires_at) ==
    LET key == Lower(user_email)
    IN  IF key \in DOMAIN table
        THEN PutRow(table, key,
                [table[key] EXCEPT !.personal_info_json = personal_info,
                                   !.expires_at = expires_at])
        ELSE PutRow(table, key,
                [personal_info_json |-> personal_info,
                 company_info_json |-> NoCompanyInfo,
                 role_assigned |-> "employee",
                 expires_at |-> expires_at])

\* key is "personal_info", "company_info" or "role_assigned"; the services
\* call it only for a row that exists.
update_pending_registration(table, user_email, key, value) ==
    LET row == table[Lower(user_email)]
    IN  PutRow(table, Lower(user_email),
            CASE key = "personal_info" -> [row EXCEPT !.personal_info_json = value]
              [] key = "company_info"  -> [row EXCEPT !.company_info_json = value]
              [] key = "role_assigned" -> [row EXCEPT !.role_assigned = value])

delete_pending_registration(table, user_email) ==
    DeleteRow(table, Lower(user_email))

\* No notification has been published yet.
NoNotification == [event |-> None, company_id |-> None, idEmploye |-> None]

\* A send_to_company call that has entered its loop: the snapshot
\* list(self.active_connections[company_id]), the number of connections
\* already tried and the list "disconnected".  Idle is a slot without a call.
Idle ==
    [manager |-> None, company_id |-> None, event |-> None,
     snapshot |-> <<>>, sent |-> 0, disconnected |-> <<>>]

----------------------------------------------------------------------------
\* The last call and its answer: the operation, its user email, one more
\* argument of the request (the employee code, the submitted code or the
\* company name), the HTTP status and a detail: the step label of
\* get_pending_state, or the branch set_verification_code took in
\* process_personal_info ("code_updated" for an existing row, lines 173-176,
\* "code_inserted" for a new one, lines 177-180).

Reply(op, email, arg, status, step) ==
    [op |-> op, email |-> Lower(email), arg |-> arg, status |-> status,
     step |-> step]

\* PersonalInfo.model_dump() has no "status" key; personal_info.get("status")
\* is then None.
PersonalInfoDump(employeeId) ==
    [employeeId |-> employeeId, status |-> None]

Init ==
    /\ now = 0
    /\ verification_code = <<>>
    /\ pending_registration = <<>>
    /\ employe = {SeedAdmin}
    /\ entreprise = {SeedEntreprise}
    /\ poste = {}
    /\ empreinte = {}
    /\ active_connections = [m \in Managers |-> <<>>]
    /\ websockets = <<>>
    /\ passes = [p \in 1..MaxPasses |-> Idle]
    /\ published = NoNotification
    /\ called = <<>>
    /\ response = Reply("start", "-", "-", HTTP_200, "-")

----------------------------------------------------------------------------
\* 1) RegistrationService.process_personal_info

process_personal_info(userEmail, employeeId, mail_ok) ==
    /\ UNCHANGED <<now, employe, entreprise, poste, empreinte, fanout>>
    /\ IF get_employe_by_email(userEmail) # {}
       THEN /\ response' = Reply("process_personal_info", userEmail, employeeId, HTTP_400, "-")
            /\ UNCHANGED <<verification_code, pending_registration>>
       ELSE IF get_employe_by_employee_id(employeeId) # {}
       THEN /\ response' = Reply("process_personal_info", userEmail, employeeId, HTTP_400, "-")
            /\ UNCHANGED <<verification_code, pending_registration>>
       ELSE IF get_verification_code(userEmail) # None
       THEN /\ response' = Reply("process_personal_info", userEmail, employeeId, HTTP_429, "-")
            /\ UNCHANGED <<verification_code, pending_registration>>
       ELSE \E code \in UserCodes :
            /\ verification_code' =
                  set_verification_code(userEmail, code, CODE_TTL_MINUTES)
            /\ pending_registration' =
                  add_pending_registration(pending_registration, userEmail,
                      PersonalInfoDump(employeeId), now + CODE_TTL_MINUTES)
            /\ response' = Reply("process_personal_info", userEmail, employeeId,
                                 IF mail_ok THEN HTTP_200 ELSE HTTP_500,
                                 IF Lower(userEmail) \in DOMAIN verification_code
                                 THEN "code_updated" ELSE "code_inserted")

\* 2) RegistrationService.verify_user_email

code_matches_Any(stored_code, code) == TRUE

code_matches(stored_code, code) == stored_code = code

verify_user_email(email, code) ==
    LET stored_code == get_verification_code(email)
        pending == get_pending_registration(email)
    IN
    /\ UNCHANGED <<now, employe, entreprise, poste, empreinte, fanout>>
    /\ IF stored_code = None
       THEN /\ response' = Reply("verify_user_email", email, code, HTTP_400, "-")
            /\ UNCHANGED <<verification_code, pending_registration>>
       ELSE IF ~code_matches(stored_code, code)
       THEN /\ response' = Reply("verify_user_email", email, code, HTTP_400, "-")
            /\ UNCHANGED <<verification_code, pending_registration>>
       ELSE IF pending = {}
       THEN /\ response' = Reply("verify_user_email", email, code, HTTP_400, "-")
            /\ UNCHANGED <<verification_code, pending_registration>>
       ELSE /\ verification_code' = delete_verification_code(email)
            /\ pending_registration' =
                  update_pending_registration(pending_registration, email,
                      "personal_info",
                      [TheRow(pending).personal_info_json
                          EXCEPT !.status = "email_verified"])
            /\ response' = Reply("verify_user_email", email, code, HTTP_200, "-")

\* 3) RegistrationService.process_company_info

email_is_verified_Exists(pending) == pending # {}

email_is_verified(pending) ==
    /\ pending # {}
    /\ TheRow(pending).personal_info_json.status = "email_verified"

process_company_info(user_email, companyName, companyContactEmail, mail_ok) ==
    LET pending == get_pending_registration(user_email)
    IN
    /\ UNCHANGED <<now, employe, entreprise, poste, empreinte, fanout>>
    /\ IF pending = {}
       THEN /\ response' = Reply("process_company_info", user_email, companyName, HTTP_400, "-")
            /\ UNCHANGED <<verification_code, pending_registration>>
       ELSE IF ~email_is_verified(pending)
       THEN /\ response' = Reply("process_company_info", user_email, companyName, HTTP_400, "-")
            /\ UNCHANGED <<verification_code, pending_registration>>
       ELSE IF get_verification_code(companyContactEmail) # None
       THEN /\ response' = Reply("process_company_info", user_email, companyName, HTTP_429, "-")
            /\ UNCHANGED <<verification_code, pending_registration>>
       ELSE \E code \in CompanyCodes :
            /\ pending_registration' =
                  update_pending_registration(pending_registration, user_email,
                      "company_info",
                      [companyName |-> companyName,
                       companyContactEmail |-> companyContactEmail])
            /\ verification_code' =
                  set_verification_code(companyContactEmail, code, CODE_TTL_MINUTES)
            /\ response' = Reply("process_company_info", user_email, companyName,
                                 IF mail_ok THEN HTTP_200 ELSE HTTP_500, "-")

\* 4) RegistrationService.verify_company_email
\* get_pending_registration always returns the key "company_info_json", so
\* the test '"company_info_json" not in pending' never fires; without stored
\* company info company_email stays None and get_verification_code(None)
\* raises AttributeError on None.lower(), which no handler turns into an
\* HTTPException.

verify_company_email(userEmail, companyCode) ==
    LET pending == get_pending_registration(userEmail)
    IN
    /\ UNCHANGED <<now, employe, entreprise, poste, empreinte, fanout>>
    /\ IF pending = {}
       THEN /\ response' = Reply("verify_company_email", userEmail, companyCode, HTTP_400, "-")
            /\ UNCHANGED <<verification_code, pending_registration>>
       ELSE IF TheRow(pending).company_info_json = NoCompanyInfo
       THEN /\ response' = Reply("verify_company_email", userEmail, companyCode, HTTP_500, "-")
            /\ UNCHANGED <<verification_code, pending_registration>>
       ELSE LET company_email == TheRow(pending).company_info_json.companyContactEmail
                stored_code == get_verification_code(company_email)
            IN  IF stored_code = None
                THEN /\ response' = Reply("verify_company_email", userEmail, companyCode, HTTP_400, "-")
                     /\ UNCHANGED <<verification_code, pending_registration>>
                ELSE IF ~code_matches(stored_code, companyCode)
                THEN /\ response' = Reply("verify_company_email", userEmail, companyCode, HTTP_400, "-")
                     /\ UNCHANGED <<verification_code, pending_registration>>
                ELSE /\ verification_code' = delete_verification_code(company_email)
                     /\ pending_registration' =
                           update_pending_registration(pending_registration,
                               userEmail, "role_assigned", "admin")
                     /\ response' = Reply("verify_company_email", userEmail, companyCode, HTTP_200, "-")

\* PosteService.create_poste: allowed to "admin" and "super-admin" only.
create_poste_allowed(role) == role \in {"admin", "super-admin"}

\* 5) RegistrationService.complete_registration, first part: the position of
\* a non-admin registration.  The result is a status and, with HTTP_200, the
\* id of the position found (None when no lookup was made).  A position is
\* identified by its name and company.
resolve_poste(position, idGroupe, role_assigned) ==
    IF position = None \/ role_assigned = "admin"
    THEN [status |-> HTTP_200, idPoste |-> None]
    ELSE IF idGroupe = None
    THEN [status |-> HTTP_400, idPoste |-> None]
    ELSE IF get_groupe_by_id(idGroupe) = {}
    THEN [status |-> HTTP_404, idPoste |-> None]
    ELSE LET idEntreprise_for_poste == TheRow(get_groupe_by_id(idGroupe)).idEntreprise
         IN  IF get_poste_by_name_and_company(position, idEntreprise_for_poste) # {}
             THEN [status |-> HTTP_200, idPoste |-> position]
             ELSE IF ~create_poste_allowed(role_assigned)
             THEN [status |-> HTTP_403, idPoste |-> None]
             ELSE [status |-> HTTP_200, idPoste |-> position]

\* The record that replaces the registration once it is finalised.
FingerprintMarker ==
    [employeeId |-> None, status |-> "pending_fingerprint_validation"]

\* Lines 238-251.  self.employe_service.create_employe is a coroutine
\* function and is called without await: its body never runs, so no employe
\* row is written.  The pending row is deleted and written anew, and
\* EmployeResponse.model_validate(<coroutine>) then raises a pydantic
\* ValidationError, a ValueError, which the controller answers with 400.
finish_registration(userEmail, companyName) ==
    /\ pending_registration' =
          add_pending_registration(
              delete_pending_registration(pending_registration, userEmail),
              userEmail, FingerprintMarker, now + FINGERPRINT_TTL_MINUTES)
    /\ employe' = employe
    /\ response' = Reply("complete_registration", userEmail, companyName, HTTP_400, "-")

complete_registration(userEmail, position, idGroupe, companyName, companyContactEmail) ==
    LET pending == get_pending_registration(userEmail)
        Fail(status) ==
            /\ response' = Reply("complete_registration", userEmail, companyName, status, "-")
            /\ UNCHANGED <<pending_registration, employe, entreprise, poste>>
    IN
    /\ UNCHANGED <<now, verification_code, empreinte, fanout>>
    /\ IF pending = {}
       THEN Fail(HTTP_400)
       ELSE IF ~email_is_verified(pending)
       THEN Fail(HTTP_400)
       ELSE LET role_assigned == TheRow(pending).role_assigned
                found == resolve_poste(position, idGroupe, role_assigned)
            IN  IF found.status # HTTP_200
                THEN Fail(found.status)
                ELSE IF role_assigned = "admin"
                THEN IF companyName = ""
                     THEN Fail(HTTP_400)
                     ELSE IF get_entreprise_by_name(companyName) # {}
                     THEN Fail(HTTP_409)
                     ELSE /\ entreprise' = entreprise \cup
                                {[nom |-> companyName,
                                  contact_email |-> Lower(companyContactEmail)]}
                          /\ poste' = IF position # None /\ found.idPoste = None
                                      THEN poste \cup {[nom |-> position,
                                                        idEntreprise |-> companyName]}
                                      ELSE poste
                          /\ finish_registration(userEmail, companyName)
                ELSE IF idGroupe = None
                THEN Fail(HTTP_400)
                ELSE IF get_groupe_by_id(idGroupe) = {}
                THEN Fail(HTTP_404)
                ELSE /\ UNCHANGED <<entreprise, poste>>
                     /\ finish_registration(userEmail, companyName)

\* RegistrationService.complete_fingerprint_validation

complete_fingerprint_validation(user_email) ==
    LET pending == get_pending_registration(user_email)
    IN
    /\ UNCHANGED <<now, verification_code, employe, entreprise, poste, empreinte, fanout>>
    /\ IF pending = {}
       THEN /\ response' = Reply("complete_fingerprint_validation", user_email, "-", HTTP_400, "-")
            /\ UNCHANGED pending_registration
       ELSE IF TheRow(pending).personal_info_json.status # "pending_fingerprint_validation"
       THEN /\ response' = Reply("complete_fingerprint_validation", user_email, "-", HTTP_400, "-")
            /\ UNCHANGED pending_registration
       ELSE /\ pending_registration' =
                  delete_pending_registration(pending_registration, user_email)
            /\ response' = Reply("complete_fingerprint_validation", user_email, "-", HTTP_200, "-")

\* The two validate-fingerprint endpoints.  An employee is identified by
\* the email of its row.
FingerprintEmployes == {"a@x.com", "root@corp.com"}

get_employe_by_id(idEmploye) ==
    {e \in employe : e.email = idEmploye}

\* pending.get("personal_info", {}).get("status"), on the dict that
\* get_pending_registration returns.
pending_get_status(pending) ==
    IF "personal_info" \in DOMAIN pending
    THEN pending["personal_info"].status
    ELSE None

fingerprint_is_pending(pending) ==
    /\ pending # {}
    /\ pending_get_status(TheRow(pending)) = "pending_fingerprint_validation"

\* POST /employes/validate-fingerprint: EmpreinteService.validate_fingerprint
\* stores the fingerprint; the endpoint then calls the coroutine function
\* complete_fingerprint_validation without await (line 281), so that its
\* body does not run, and answers 201.
employes_validate_fingerprint(idEmploye) ==
    LET found == get_employe_by_id(idEmploye)
        Fail(status) ==
            /\ response' = Reply("employes_validate_fingerprint", idEmploye, "-", status, "-")
            /\ UNCHANGED empreinte
    IN
    /\ UNCHANGED <<now, verification_code, pending_registration, employe,
                   entreprise, poste, fanout>>
    /\ IF found = {}
       THEN Fail(HTTP_404)
       ELSE IF ~fingerprint_is_pending(
                   get_pending_registration(TheRow(found).email))
       THEN Fail(HTTP_400)
       ELSE /\ empreinte' = empreinte \cup {[idEmploye |-> idEmploye]}
            /\ response' = Reply("employes_validate_fingerprint", idEmploye,
                                 "-", HTTP_201, "-")

\* POST /empreintes/validate-fingerprint.  After the same test the endpoint
\* calls employe_service.add_empreinte, which EmployeService does not define:
\* the AttributeError is answered with 500 before anything is written.
empreintes_validate_fingerprint(idEmploye) ==
    LET found == get_employe_by_id(idEmploye)
        status == IF found = {} THEN HTTP_404
                  ELSE IF ~fingerprint_is_pending(
                              get_pending_registration(TheRow(found).email))
                  THEN HTTP_400
                  ELSE HTTP_500
    IN
    /\ response' = Reply("empreintes_validate_fingerprint", idEmploye, "-", status, "-")
    /\ UNCHANGED <<now, db, fanout>>

\* RegistrationService.get_pending_state: the step label of a record.

step_of_StatusFirst(pending) ==
    IF pending.personal_info_json.status = "pending_fingerprint_validation"
    THEN "fingerprint_validation"
    ELSE IF pending.personal_info_json.status = "email_verified"
    THEN "company_info"
    ELSE IF pending.role_assigned = "admin"
    THEN "final"
    ELSE IF pending.company_info_json # NoCompanyInfo
    THEN "verify_company"
    ELSE "personal_info"

step_of(pending) ==
    LET step1 == IF pending.personal_info_json.status = "email_verified"
                 THEN "company_info" ELSE "personal_info"
        step2 == IF pending.company_info_json # NoCompanyInfo
                 THEN "verify_company" ELSE step1
        step3 == IF pending.role_assigned = "admin" THEN "final" ELSE step2
    IN  IF pending.personal_info_json.status = "pending_fingerprint_validation"
        THEN "fingerprint_validation" ELSE step3

get_pending_state(user_email) ==
    LET pending == get_pending_registration(user_email)
    IN
    /\ UNCHANGED <<now, db, fanout>>
    /\ IF pending = {}
       THEN response' = Reply("get_pending_state", user_email, "-", HTTP_400, "-")
       ELSE response' = Reply("get_pending_state", user_email, "-", HTTP_200,
                              step_of(TheRow(pending)))

----------------------------------------------------------------------------
\* NotificationManager (app/websocket/websocket.py).  The active_connections
\* of one manager map a company_id to the list of its connections.

InList(list, websocket) == \E k \in 1..Len(list) : list[k] = websocket

\* list.remove(x): removes the first occurrence.
list_remove(list, websocket) ==
    LET i == CHOOSE k \in 1..Len(list) :
                 list[k] = websocket /\ \A j \in 1..(k - 1) : list[j] # websocket
    IN  SubSeq(list, 1, i - 1) \o SubSeq(list, i + 1, Len(list))

connect_Twice(connections, company_id, websocket) ==
    PutRow(connections, company_id,
           Append(Append(IF company_id \in DOMAIN connections
                         THEN connections[company_id] ELSE <<>>, websocket),
                  websocket))

connect(connections, company_id, websocket) ==
    PutRow(connections, company_id,
           Append(IF company_id \in DOMAIN connections
                  THEN connections[company_id] ELSE <<>>, websocket))

disconnect_DropChannel(connections, company_id, websocket) ==
    DeleteRow(connections, company_id)

disconnect_KeepEmpty(connections, company_id, websocket) ==
    IF company_id \in DOMAIN connections
       /\ InList(connections[company_id], websocket)
    THEN PutRow(connections, company_id,
                list_remove(connections[company_id], websocket))
    ELSE connections

disconnect(connections, company_id, websocket) ==
    IF company_id \in DOMAIN connections
       /\ InList(connections[company_id], websocket)
    THEN LET rest == list_remove(connections[company_id], websocket)
         IN  IF rest = <<>>
             THEN DeleteRow(connections, company_id)
             ELSE PutRow(connections, company_id, rest)
    ELSE connections

\* send_to_company, lines 59-60: the connections whose send raised are
\* disconnected one after the other.
disconnect_each_None(connections, company_id, disconnected) ==
    connections

RECURSIVE disconnect_each(_, _, _)
disconnect_each(connections, company_id, disconnected) ==
    IF disconnected = <<>>
    THEN connections
    ELSE disconnect_each(disconnect(connections, company_id, Head(disconnected)),
                         company_id, Tail(disconnected))

send_to_company_Broadcast(managers, company_id, event) ==
    IF managers = <<>> \/ DOMAIN active_connections[Head(managers)] = {}
    THEN Idle
    ELSE [manager |-> Head(managers), company_id |-> company_id,
          event |-> event,
          snapshot |-> active_connections[Head(managers)][
                          CHOOSE c \in DOMAIN active_connections[Head(managers)] :
                              c # company_id
                              \/ DOMAIN active_connections[Head(managers)] = {c}],
          sent |-> 0, disconnected |-> <<>>]

\* send_notification calls send_to_company of each manager in turn; a
\* manager that has no entry for company_id returns at once (lines 61-64).
\* The result is the first call, among the given managers, that enters its
\* loop, or Idle when none does.
RECURSIVE send_to_company(_, _, _)
send_to_company(managers, company_id, event) ==
    IF managers = <<>>
    THEN Idle
    ELSE IF company_id \in DOMAIN active_connections[Head(managers)]
    THEN [manager |-> Head(managers), company_id |-> company_id,
          event |-> event,
          snapshot |-> active_connections[Head(managers)][company_id],
          sent |-> 0, disconnected |-> <<>>]
    ELSE send_to_company(Tail(managers), company_id, event)

\* The managers that send_notification calls after the given one.
managers_after_None(manager) == <<>>

managers_after(manager) ==
    IF manager = ManagerOrder[1] THEN Tail(ManagerOrder) ELSE <<>>

\* The send_to_company calls that send_notification makes, from the given
\* managers on, up to and including the first one that enters its loop.
RECURSIVE calls_made(_, _, _)
calls_made(managers, company_id, event) ==
    IF managers = <<>>
    THEN <<>>
    ELSE <<[manager |-> Head(managers), company_id |-> company_id,
            event |-> event]>>
         \o (IF company_id \in DOMAIN active_connections[Head(managers)]
             THEN <<>>
             ELSE calls_made(Tail(managers), company_id, event))

\* Both managers are handed the event (employe_service.py 139-140,
\* noftication_envoyer.py 19-20).
publish(event, company_id, idEmploye) ==
    LET first == send_to_company(ManagerOrder, company_id, event)
    IN
    /\ published' =
          [event |-> event, company_id |-> company_id, idEmploye |-> idEmploye]
    /\ called' = calls_made(ManagerOrder, company_id, event)
    /\ IF first = Idle
       THEN passes' = passes
       ELSE \E p \in DOMAIN passes :
               /\ passes[p] = Idle
               /\ \A q \in 1..(p - 1) : passes[q] # Idle
               /\ passes' = [passes EXCEPT ![p] = first]
    /\ UNCHANGED <<active_connections, websockets>>

\* EmployeService.send_notification
send_notification(event, idEntreprise, idEmploye) ==
    LET company_id == IF idEntreprise = None THEN "" ELSE Lower(idEntreprise)
    IN  IF company_id = ""
        THEN UNCHANGED fanout
        ELSE publish(event, company_id, idEmploye)

\* POST /notify (controllers/noftication_envoyer.py): the key is
\* str(notification.idEntreprise).lower(), "none" without a company.
notify(idEntreprise) ==
    /\ publish("notification", Lower(idEntreprise), "-")
    /\ response' = Reply("notify", idEntreprise, "-", HTTP_200, "-")
    /\ UNCHANGED <<now, db>>

\* One turn of the loop of send_to_company (lines 50-58): ws.send_text
\* returns or raises.  After the last connection of the snapshot the call
\* disconnects the connections whose send raised and returns, and
\* send_notification goes on with the next manager.  The detail of the reply
\* tells what the send did and whether an earlier send of the same call had
\* raised.
send_text(p, raises) ==
    LET pass == passes[p]
        ws == pass.snapshot[pass.sent + 1]
        disconnected == IF raises THEN Append(pass.disconnected, ws)
                        ELSE pass.disconnected
    IN
    /\ pass # Idle
    /\ IF pass.sent + 1 < Len(pass.snapshot)
       THEN /\ passes' = [passes EXCEPT ![p] =
                             [pass EXCEPT !.sent = pass.sent + 1,
                                          !.disconnected = disconnected]]
            /\ UNCHANGED <<active_connections, called>>
       ELSE /\ active_connections' =
                  [active_connections EXCEPT ![pass.manager] =
                      disconnect_each(@, pass.company_id, disconnected)]
            /\ called' =
                  IF managers_after(pass.manager) = <<>>
                  THEN called
                  ELSE calls_made(managers_after(pass.manager),
                                  pass.company_id, pass.event)
            /\ passes' = [passes EXCEPT ![p] =
                  send_to_company(managers_after(pass.manager),
                                  pass.company_id, pass.event)]
    /\ response' = Reply("send_to_company", pass.company_id, ws, HTTP_200,
                         IF pass.disconnected = <<>>
                         THEN IF raises THEN "raised" ELSE "sent"
                         ELSE IF raises THEN "raised_again" ELSE "sent_after_raise")
    /\ UNCHANGED <<now, db, websockets, published>>

\* GET /ws (app/websocket/endpoint_websocket.py).  The connection is a new
\* object: no list and no snapshot holds it.  A token without company_id
\* closes the socket with code 4401.
websocket_endpoint(token_company_id, websocket) ==
    LET company_id == Lower(token_company_id)
    IN
    /\ websocket \notin DOMAIN websockets
    /\ \A p \in DOMAIN passes : ~InList(passes[p].snapshot, websocket)
    /\ \A m \in Managers : \A c \in DOMAIN active_connections[m] :
          ~InList(active_connections[m][c], websocket)
    /\ IF company_id = ""
       THEN /\ response' = Reply("websocket_endpoint", company_id, websocket,
                                 WS_CLOSE_4401, "-")
            /\ UNCHANGED <<active_connections, websockets>>
       ELSE /\ active_connections' =
                  [active_connections EXCEPT !["web"] =
                      connect(@, company_id, websocket)]
            /\ websockets' = PutRow(websockets, websocket, company_id)
            /\ response' = Reply("websocket_endpoint", company_id, websocket,
                                 HTTP_200, "-")
    /\ UNCHANGED <<now, db, passes, published, called>>

\* The client went away: receive_text raises WebSocketDisconnect and the
\* endpoint disconnects its connection (lines 28-30).
WebSocketDisconnect(websocket) ==
    /\ websocket \in DOMAIN websockets
    /\ active_connections' =
          [active_connections EXCEPT !["web"] =
              disconnect(@, websockets[websocket], websocket)]
    /\ websockets' = DeleteRow(websockets, websocket)
    /\ response' = Reply("WebSocketDisconnect", websockets[websocket], websocket,
                         HTTP_200, "-")
    /\ UNCHANGED <<now, db, passes, published, called>>

\* The loop of the endpoint (lines 25-30) awaits receive_text and handles
\* WebSocketDisconnect only.  A text frame is returned and dropped.  For a
\* binary frame receive_text looks up message["text"] in a message that
\* carries "bytes": the KeyError leaves the endpoint, the server closes the
\* connection, and disconnect is not called.
receive_text(websocket, frame) ==
    /\ websocket \in DOMAIN websockets
    /\ IF frame = "text"
       THEN /\ response' = Reply("receive_text", websockets[websocket], websocket,
                                 HTTP_200, frame)
            /\ UNCHANGED websockets
       ELSE /\ response' = Reply("receive_text", websockets[websocket], websocket,
                                 HTTP_500, frame)
            /\ websockets' = DeleteRow(websockets, websocket)
    /\ UNCHANGED <<now, db, active_connections, passes, published, called>>

\* EmployeService.create_employe, reached through POST /employes/ by an
\* authenticated admin or manager.  The request carries idEntreprise and
\* idGroupe and no companyName, phone number, position or password.
create_employe(email, employeeId, idEntreprise, idGroupe, current_user) ==
    LET Fail(status) ==
            /\ response' = Reply("create_employe", email, "-", status, "-")
            /\ UNCHANGED <<pending_registration, employe, fanout>>
    IN
    /\ current_user \in employe
    /\ current_user.role \in {"admin", "manager"}
    /\ UNCHANGED <<now, verification_code, entreprise, poste, empreinte>>
    /\ IF get_employe_by_email(email) # {}
       THEN Fail(HTTP_400)
       ELSE IF get_employe_by_employee_id(employeeId) # {}
       THEN Fail(HTTP_400)
       ELSE IF idEntreprise = None
       THEN Fail(HTTP_400)
       ELSE IF {c \in entreprise : c.nom = idEntreprise} = {}
       THEN Fail(HTTP_404)
       ELSE IF current_user.idEntreprise # idEntreprise
       THEN Fail(HTTP_403)
       ELSE IF /\ idGroupe # None
               /\ \/ get_groupe_by_id(idGroupe) = {}
                  \/ TheRow(get_groupe_by_id(idGroupe)).idEntreprise # idEntreprise
       THEN Fail(HTTP_400)
       ELSE /\ employe' = employe \cup
                  {[email |-> Lower(email), employeeId |-> employeeId,
                    role |-> "employee", idEntreprise |-> idEntreprise,
                    idGroupe |-> idGroupe, idPoste |-> None]}
            /\ pending_registration' =
                  add_pending_registration(pending_registration, email,
                      FingerprintMarker, now + FINGERPRINT_TTL_MINUTES)
            /\ send_notification("EMPLOYE_CREATED", idEntreprise, Lower(email))
            /\ response' = Reply("create_employe", email, "-", HTTP_201, "-")

\* EmployeService.delete_employe, reached through DELETE /employes/{id} by
\* an authenticated admin or manager.  The fingerprints of the employee go
\* with the row (cascade of EmployeDB.empreintes).
delete_employe(idEmploye, current_user) ==
    LET found == get_employe_by_id(idEmploye)
    IN
    /\ current_user \in employe
    /\ current_user.role \in {"admin", "manager"}
    /\ UNCHANGED <<now, verification_code, pending_registration, entreprise, poste>>
    /\ IF found = {}
       THEN /\ response' = Reply("delete_employe", idEmploye, "-", HTTP_404, "-")
            /\ UNCHANGED <<employe, empreinte, fanout>>
       ELSE /\ employe' = employe \ found
            /\ empreinte' = {f \in empreinte : f.idEmploye # idEmploye}
            /\ send_notification("NOTIFICATION_REMOVED",
                                 TheRow(found).idEntreprise, idEmploye)
            /\ response' = Reply("delete_employe", idEmploye, "-", HTTP_200, "-")

\* EmployeRepository.cleanup_expired_entries, run at start-up and by
\* cleanup_script.py: deletes the rows with expires_at < now.
cleanup_expired_entries ==
    /\ verification_code' =
          [k \in {i \in DOMAIN verification_code :
                    ~(verification_code[i].expires_at < now)}
             |-> verification_code[k]]
    /\ pending_registration' =
          [k \in {i \in DOMAIN pending_registration :
                    ~(pending_registration[i].expires_at < now)}
             |-> pending_registration[k]]
    /\ response' = Reply("cleanup_expired_entries", "-", "-", HTTP_200, "-")
    /\ UNCHANGED <<now, employe, entreprise, poste, empreinte, fanout>>

\* The clock.
Tick ==
    /\ now + TickMinutes <= MaxNow
    /\ now' = now + TickMinutes
    /\ response' = Reply("tick", "-", "-", HTTP_200, "-")
    /\ UNCHANGED <<db, fanout>>

Next ==
    \/ \E userEmail \in UserEmails, employeeId \in EmployeeIds, mail_ok \in BOOLEAN :
          process_personal_info(userEmail, employeeId, mail_ok)
    \/ \E email \in UserEmails, code \in SubmittedCodes :
          verify_user_email(email, code)
    \/ \E user_email \in UserEmails, companyName \in CompanyNames,
          companyContactEmail \in ContactEmails, mail_ok \in BOOLEAN :
          process_company_info(user_email, companyName, companyContactEmail, mail_ok)
    \/ \E userEmail \in UserEmails, companyCode \in SubmittedCodes :
          verify_company_email(userEmail, companyCode)
    \/ \E userEmail \in UserEmails, position \in Positions, idGroupe \in GroupeIds,
          companyName \in FinalCompanyNames, companyContactEmail \in ContactEmails :
          complete_registration(userEmail, position, idGroupe, companyName,
                                companyContactEmail)
    \/ \E user_email \in UserEmails : complete_fingerprint_validation(user_email)
    \/ \E user_email \in UserEmails : get_pending_state(user_email)
    \/ \E idEmploye \in FingerprintEmployes :
          employes_validate_fingerprint(idEmploye)
    \/ \E idEmploye \in FingerprintEmployes :
          empreintes_validate_fingerprint(idEmploye)
    \/ \E email \in UserEmails, employeeId \in EmployeeIds,
          idEntreprise \in {None, "Corp", "Acme"}, idGroupe \in {"G1", "G9"},
          current_user \in employe :
          create_employe(email, employeeId, idEntreprise, idGroupe, current_user)
    \/ cleanup_expired_entries
    \/ Tick

Spec == Init /\ [][Next]_vars

\* The pending-registration store on its own: one stored record of every
\* shape the columns allow, read by get_pending_state as time passes.
PendingStatuses == {None, "email_verified", "pending_fingerprint_validation"}
StoredCompanyInfos ==
    {NoCompanyInfo, [companyName |-> "Acme", companyContactEmail |-> "b@x.com"]}
StoredRoles == {"employee", "admin"}
StoredExpiries == {TickMinutes, CODE_TTL_MINUTES, FINGERPRINT_TTL_MINUTES}

InitPendingState ==
    /\ now = 0
    /\ verification_code = <<>>
    /\ \E status \in PendingStatuses, company_info \in StoredCompanyInfos,
          role_assigned \in StoredRoles, expires_at \in StoredExpiries,
          e \in Identifiers :
          pending_registration =
             [k \in {e} |->
                [personal_info_json |-> [employeeId |-> "E1", status |-> status],
                 company_info_json |-> company_info,
                 role_assigned |-> role_assigned,
                 expires_at |-> expires_at]]
    /\ employe = {SeedAdmin}
    /\ entreprise = {SeedEntreprise}
    /\ poste = {}
    /\ empreinte = {}
    /\ active_connections = [m \in Managers |-> <<>>]
    /\ websockets = <<>>
    /\ passes = [p \in 1..MaxPasses |-> Idle]
    /\ published = NoNotification
    /\ called = <<>>
    /\ response = Reply("start", "-", "-", HTTP_200, "-")

NextPendingState ==
    \/ \E user_email \in UserEmails \cup ContactEmails : get_pending_state(user_email)
    \/ Tick

SpecPendingState == InitPendingState /\ [][NextPendingState]_vars

\* The verification-code store on its own: any stored rows, read by
\* get_verification_code as time passes.
StoredCodes == UserCodes \cup CompanyCodes
CodeExpiries == {0, TickMinutes, CODE_TTL_MINUTES}

call_get_verification_code(email) ==
    /\ response' = Reply("get_verification_code", email, email, HTTP_200,
                         get_verification_code(email))
    /\ UNCHANGED <<now, db, fanout>>

InitCodeStore ==
    /\ now = 0
    /\ \E ids \in SUBSET Identifiers :
          verification_code \in
             [ids -> [code : StoredCodes, expires_at : CodeExpiries]]
    /\ pending_registration = <<>>
    /\ employe = {SeedAdmin}
    /\ entreprise = {SeedEntreprise}
    /\ poste = {}
    /\ empreinte = {}
    /\ active_connections = [m \in Managers |-> <<>>]
    /\ websockets = <<>>
    /\ passes = [p \in 1..MaxPasses |-> Idle]
    /\ published = NoNotification
    /\ called = <<>>
    /\ response = Reply("start", "-", "-", HTTP_200, "-")

NextCodeStore ==
    \/ \E email \in UserEmails \cup ContactEmails : call_get_verification_code(email)
    \/ Tick

SpecCodeStore == InitCodeStore /\ [][NextCodeStore]_vars

\* The notification fan-out with connected clients: the /ws endpoint, the
\* publishers (POST /notify and the creation of an employee) and the turns
\* of the send loops.  The registration tables change only by
\* create_employe.
NextFanout ==
    \/ \E token_company_id \in TokenCompanies, websocket \in Sockets :
          websocket_endpoint(token_company_id, websocket)
    \/ \E websocket \in Sockets, frame \in Frames : receive_text(websocket, frame)
    \/ \E websocket \in Sockets : WebSocketDisconnect(websocket)
    \/ \E idEntreprise \in {None, "Corp"} : notify(idEntreprise)
    \/ \E p \in DOMAIN passes, raises \in BOOLEAN : send_text(p, raises)
    \/ \E email \in UserEmails, employeeId \in EmployeeIds,
          current_user \in employe :
          create_employe(email, employeeId, "Corp", "G1", current_user)

SpecFanout == Init /\ [][NextFanout]_vars

\* The /ws endpoint with the frames a client can send, and POST /notify.
\* The event loop resumes every send_to_company call that waits on a send;
\* what the clients do is up to them.
NextSockets ==
    \/ \E token_company_id \in TokenCompanies, websocket \in Sockets :
          websocket_endpoint(token_company_id, websocket)
    \/ \E websocket \in Sockets, frame \in Frames : receive_text(websocket, frame)
    \/ \E websocket \in Sockets : WebSocketDisconnect(websocket)
    \/ \E idEntreprise \in {None, "Corp"} : notify(idEntreprise)
    \/ \E p \in DOMAIN passes, raises \in BOOLEAN : send_text(p, raises)

SpecSockets ==
    /\ Init
    /\ [][NextSockets]_vars
    /\ WF_vars(\E p \in DOMAIN passes, raises \in BOOLEAN : send_text(p, raises))

\* The three publishers (POST /notify, the creation and the deletion of an
\* employee) with the clients of one company connected.
NextPublish ==
    \/ \E websocket \in Sockets : websocket_endpoint("Corp", websocket)
    \/ \E idEntreprise \in {None, "Corp"} : notify(idEntreprise)
    \/ \E p \in DOMAIN passes, raises \in BOOLEAN : send_text(p, raises)
    \/ \E email \in UserEmails, employeeId \in EmployeeIds,
          current_user \in employe :
          create_employe(email, employeeId, "Corp", "G1", current_user)
    \/ \E idEmploye \in Identifiers, current_user \in employe :
          delete_employe(idEmploye, current_user)

SpecPublish == Init /\ [][NextPublish]_vars

----------------------------------------------------------------------------
\* Vocabulary of the properties, over the tables themselves.

HasPending(e) ==
    /\ e \in DOMAIN pending_registration
    /\ pending_registration[e].expires_at > now

StatusOf(e) == pending_registration[e].personal_info_json.status

HasCode(e) ==
    /\ e \in DOMAIN verification_code
    /\ verification_code[e].expires_at > now

EmployeHolds(e, employeeId) ==
    \E emp \in employe : emp.email = e \/ emp.employeeId = employeeId

Called(op, e) == response'.op = op /\ response'.email = e

----------------------------------------------------------------------------
\* C1: process_company_info answers 400, stores no company_info and issues
\* no code whenever the user email has no unexpired pending record or the
\* record's status is not exactly email_verified.
C1_CompanyInfoNeedsVerifiedEmail ==
    [][\A e \in Identifiers :
        (Called("process_company_info", e)
           /\ ~(HasPending(e) /\ StatusOf(e) = "email_verified"))
        => /\ response'.status = HTTP_400
           /\ pending_registration' = pending_registration
           /\ verification_code' = verification_code]_vars

\* C1 witness: process_company_info was refused on the record that
\* complete_registration wrote in place of the registration.
C1_Witness ==
    /\ response.op = "process_company_info"
    /\ response.status = HTTP_400
    /\ HasPending(response.email)
    /\ StatusOf(response.email) = "pending_fingerprint_validation"
    /\ get_employe_by_email(response.email) = {}

\* C2 (as claimed): process_personal_info for an email that has an unexpired
\* pending record is rejected and leaves the record as it was.
C2_PersonalInfoOnlyFromNoRecord ==
    [][\A e \in Identifiers :
        (Called("process_personal_info", e) /\ HasPending(e))
        => /\ response'.status \notin {HTTP_200, HTTP_201}
           /\ e \in DOMAIN pending_registration'
           /\ pending_registration'[e] = pending_registration[e]]_vars

\* C3: verify_user_email with the stored, unexpired code and an unexpired
\* pending record answers 200, deletes the code and sets the status to
\* email_verified; the same call repeated right after it answers 400.
C3_VerifyConsumesCode ==
    [][\A e \in Identifiers :
        /\ (Called("verify_user_email", e) /\ HasCode(e) /\ HasPending(e)
              /\ verification_code[e].code = response'.arg)
           => /\ response'.status = HTTP_200
              /\ e \notin DOMAIN verification_code'
              /\ e \in DOMAIN pending_registration'
              /\ pending_registration'[e].personal_info_json.status = "email_verified"
        /\ (Called("verify_user_email", e)
              /\ response.op = "verify_user_email" /\ response.email = e
              /\ response.status = HTTP_200 /\ response'.arg = response.arg)
           => /\ response'.status = HTTP_400
              /\ UNCHANGED <<verification_code, pending_registration>>]_vars

\* C3 witness: the second verification with the code that was just consumed
\* has been refused.
C3_Witness ==
    /\ response.op = "verify_user_email"
    /\ response.status = HTTP_400
    /\ response.arg \in UserCodes
    /\ response.email \notin DOMAIN verification_code
    /\ HasPending(response.email)
    /\ StatusOf(response.email) = "email_verified"

\* C4: verify_user_email with a code that differs from the stored one
\* answers 400 and leaves the stored code and the pending record unchanged.
C4_WrongCodeChangesNothing ==
    [][\A e \in Identifiers :
        (Called("verify_user_email", e)
           /\ e \in DOMAIN verification_code
           /\ verification_code[e].code # response'.arg)
        => /\ response'.status = HTTP_400
           /\ verification_code' = verification_code
           /\ pending_registration' = pending_registration]_vars

\* C4 witness: a wrong code was refused while the right one is still stored
\* and usable and the record still awaits verification.
C4_Witness ==
    /\ response.op = "verify_user_email"
    /\ response.status = HTTP_400
    /\ HasCode(response.email)
    /\ verification_code[response.email].code # response.arg
    /\ HasPending(response.email)
    /\ StatusOf(response.email) = None

\* C5 (as claimed): role_assigned becomes "admin" only by a
\* verify_company_email whose code is the unexpired code stored under the
\* contact email of the record's company_info, and that code is then deleted;
\* any other verify_company_email answers 400 and leaves the pending records
\* and the codes unchanged.
ValidCompanyCode(e, code) ==
    /\ HasPending(e)
    /\ pending_registration[e].company_info_json # NoCompanyInfo
    /\ HasCode(Lower(pending_registration[e].company_info_json.companyContactEmail))
    /\ verification_code[Lower(pending_registration[e].company_info_json.companyContactEmail)].code
          = code

C5_AdminOnlyByCompanyCode ==
    [][\A e \in Identifiers :
        /\ (/\ e \in DOMAIN pending_registration'
            /\ pending_registration'[e].role_assigned = "admin"
            /\ ~(e \in DOMAIN pending_registration
                   /\ pending_registration[e].role_assigned = "admin"))
           => /\ Called("verify_company_email", e)
              /\ ValidCompanyCode(e, response'.arg)
              /\ Lower(pending_registration[e].company_info_json.companyContactEmail)
                    \notin DOMAIN verification_code'
        /\ (Called("verify_company_email", e) /\ ~ValidCompanyCode(e, response'.arg))
           => /\ response'.status = HTTP_400
              /\ UNCHANGED <<pending_registration, verification_code>>]_vars

\* C6 (as claimed): process_personal_info for an email with an unexpired code
\* answers 429 and changes neither the codes nor the pending records; once
\* the stored code has expired, the call succeeds and stores a new code,
\* provided no employe row holds the email or the employee code.
C6_RateLimitedUntilExpiry ==
    [][\A e \in Identifiers :
        /\ (Called("process_personal_info", e) /\ HasCode(e))
           => /\ response'.status = HTTP_429
              /\ UNCHANGED <<pending_registration, verification_code>>
        /\ (Called("process_personal_info", e)
              /\ e \in DOMAIN verification_code
              /\ verification_code[e].expires_at <= now
              /\ ~EmployeHolds(e, response'.arg))
           => /\ response'.status = HTTP_200
              /\ e \in DOMAIN verification_code'
              /\ verification_code'[e].expires_at = now + CODE_TTL_MINUTES]_vars

\* C6 (amended): process_personal_info for an email with an unexpired code
\* fails and changes neither the codes nor the pending records: with 429 when
\* no employe row holds the email or the employee code, with 400 when one
\* does.  Once the stored code has expired and no employe row holds the email
\* or the employee code, the call stores a new code that lives 4 minutes and
\* answers 200, or 500 when the email could not be sent.
C6_RateLimitedUnlessConflict ==
    [][\A e \in Identifiers :
        /\ (Called("process_personal_info", e) /\ HasCode(e))
           => /\ response'.status =
                    IF EmployeHolds(e, response'.arg) THEN HTTP_400 ELSE HTTP_429
              /\ UNCHANGED <<pending_registration, verification_code>>
        /\ (Called("process_personal_info", e)
              /\ e \in DOMAIN verification_code
              /\ verification_code[e].expires_at <= now
              /\ ~EmployeHolds(e, response'.arg))
           => /\ response'.status \in {HTTP_200, HTTP_500}
              /\ e \in DOMAIN verification_code'
              /\ verification_code'[e].expires_at = now + CODE_TTL_MINUTES]_vars

\* C6 witness: the call has succeeded over the row of a code whose lifetime
\* had elapsed and has stored a code that is valid for 4 more minutes.
C6_Witness ==
    /\ response.op = "process_personal_info"
    /\ response.status = HTTP_200
    /\ response.step = "code_updated"
    /\ HasCode(response.email)
    /\ verification_code[response.email].expires_at = now + CODE_TTL_MINUTES

\* C7 (as claimed): a pending record with status
\* pending_fingerprint_validation belongs to an email that an employe row
\* holds.
C7_MarkerImpliesEmploye ==
    \A e \in DOMAIN pending_registration :
        StatusOf(e) = "pending_fingerprint_validation"
        => \E emp \in employe : emp.email = e

\* C8 (as claimed): complete_registration with a company name that is not
\* taken, for a record whose email is verified, whose company code was
\* verified (role admin) and whose company contact is another address,
\* answers 200 and leaves an employe row with role admin for the email, the
\* company row, and a record whose step is fingerprint_validation.
C8_AdminScenarioSucceeds ==
    [][\A e \in Identifiers :
        (Called("complete_registration", e)
           /\ HasPending(e)
           /\ StatusOf(e) = "email_verified"
           /\ pending_registration[e].role_assigned = "admin"
           /\ Lower(pending_registration[e].company_info_json.companyContactEmail) # e
           /\ response'.arg = "Acme"
           /\ ~\E c \in entreprise : c.nom = "Acme")
        => /\ response'.status = HTTP_200
           /\ \E emp \in employe' : emp.email = e /\ emp.role = "admin"
           /\ \E c \in entreprise' : c.nom = "Acme"
           /\ e \in DOMAIN pending_registration'
           /\ step_of(pending_registration'[e]) = "fingerprint_validation"]_vars

\* C9 (as claimed): a complete_registration that replaces the pending record
\* succeeds, and the record it leaves has only the status tag
\* pending_fingerprint_validation, no company_info and no admin role, so that
\* get_pending_state reports fingerprint_validation.
C9_SuccessLeavesOnlyMarker ==
    [][\A e \in Identifiers :
        (Called("complete_registration", e)
           /\ pending_registration' # pending_registration)
        => /\ response'.status = HTTP_200
           /\ e \in DOMAIN pending_registration'
           /\ pending_registration'[e].personal_info_json = FingerprintMarker
           /\ pending_registration'[e].company_info_json = NoCompanyInfo
           /\ pending_registration'[e].role_assigned # "admin"
           /\ step_of(pending_registration'[e]) = "fingerprint_validation"]_vars

\* C10 (as claimed): complete_fingerprint_validation deletes an unexpired
\* record with status pending_fingerprint_validation and a get_pending_state
\* that follows answers 404; in any other state it fails and changes nothing.
C10_FingerprintValidationDeletes ==
    [][\A e \in Identifiers :
        /\ (Called("complete_fingerprint_validation", e)
              /\ HasPending(e)
              /\ StatusOf(e) = "pending_fingerprint_validation")
           => /\ response'.status = HTTP_200
              /\ e \notin DOMAIN pending_registration'
        /\ (Called("complete_fingerprint_validation", e)
              /\ ~(HasPending(e) /\ StatusOf(e) = "pending_fingerprint_validation"))
           => /\ response'.status # HTTP_200
              /\ pending_registration' = pending_registration
        /\ (Called("get_pending_state", e)
              /\ response.op = "complete_fingerprint_validation"
              /\ response.email = e
              /\ response.status = HTTP_200)
           => response'.status = HTTP_404]_vars

\* C11 (as claimed): a fingerprint submission through either
\* validate-fingerprint endpoint, for an employee whose unexpired pending
\* record has status pending_fingerprint_validation, is accepted, stores a
\* fingerprint of the employee and deletes the pending record.
C11_FingerprintSubmissionClears ==
    [][\A e \in FingerprintEmployes :
        (/\ \/ Called("employes_validate_fingerprint", e)
            \/ Called("empreintes_validate_fingerprint", e)
         /\ \E emp \in employe : emp.email = e
         /\ HasPending(e)
         /\ StatusOf(e) = "pending_fingerprint_validation")
        => /\ response'.status = HTTP_201
           /\ \E f \in empreinte' : f.idEmploye = e
           /\ e \notin DOMAIN pending_registration']_vars

\* C12 (as claimed): a complete_registration that finalises the registration
\* (the pending record is replaced) has persisted the employe row of the
\* email and has published the EMPLOYE_CREATED event of that employee to the
\* channel of the employee's company.
C12_CompletionPublishesEvent ==
    [][\A e \in Identifiers :
        (Called("complete_registration", e)
           /\ pending_registration' # pending_registration)
        => /\ \E emp \in employe' :
                 /\ emp.email = e
                 /\ published' = [event |-> "EMPLOYE_CREATED",
                                  company_id |-> Lower(emp.idEntreprise),
                                  idEmploye |-> e]]_vars

\* C13 (as claimed): the pending record outlives the user code, so that
\* process_company_info for a stored record whose email is verified is not
\* refused with 400, however long ago process_personal_info was.
C13_PendingOutlivesCode ==
    [][\A e \in Identifiers :
        (Called("process_company_info", e)
           /\ e \in DOMAIN pending_registration
           /\ StatusOf(e) = "email_verified")
        => response'.status # HTTP_400]_vars

\* C14 (as claimed): verify_user_email accepts only a code that
\* process_personal_info issued, and process_company_info leaves every row
\* that holds a user code as it is.
C14_CodeNamespacesIndependent ==
    [][\A e \in Identifiers :
        /\ (Called("verify_user_email", e) /\ response'.status = HTTP_200)
           => response'.arg \in UserCodes
        /\ (response'.op = "process_company_info"
              /\ e \in DOMAIN verification_code
              /\ verification_code[e].code \in UserCodes)
           => /\ e \in DOMAIN verification_code'
              /\ verification_code'[e] = verification_code[e]]_vars

\* C15 (as claimed): a process_personal_info that directly follows a
\* successful identical one for the same email succeeds as well, and the
\* email has its pending record.
C15_BothSubmitsSucceed ==
    [][\A e \in Identifiers :
        (Called("process_personal_info", e)
           /\ response.op = "process_personal_info" /\ response.email = e
           /\ response.status = HTTP_200 /\ response'.arg = response.arg)
        => /\ response'.status = HTTP_200
           /\ e \in DOMAIN pending_registration']_vars

\* C15 (amended): a process_personal_info that directly follows an identical
\* one which stored its code (answered 200, or 500 because the email could
\* not be sent) is refused with 429 and changes neither the codes nor the
\* pending records; the record of the first call stays the only one of the
\* email.
C15_SecondSubmitRateLimited ==
    [][\A e \in Identifiers :
        (Called("process_personal_info", e)
           /\ response.op = "process_personal_info" /\ response.email = e
           /\ response.status \in {HTTP_200, HTTP_500}
           /\ response'.arg = response.arg)
        => /\ response'.status = HTTP_429
           /\ UNCHANGED <<verification_code, pending_registration>>
           /\ e \in DOMAIN pending_registration
           /\ pending_registration[e].personal_info_json.employeeId = response.arg]_vars

\* C15 witness: the call was refused with 429 at the very instant at which
\* the code and the record of the same request were stored.
C15_Witness ==
    /\ response.op = "process_personal_info"
    /\ response.status = HTTP_429
    /\ HasCode(response.email)
    /\ verification_code[response.email].expires_at = now + CODE_TTL_MINUTES
    /\ HasPending(response.email)
    /\ pending_registration[response.email].personal_info_json.employeeId
          = response.arg

\* C16 (as claimed): process_personal_info for an email (in any case) or an
\* employee code that an employe row holds answers 409 and stores neither a
\* pending record nor a code.
C16_ConflictOnTakenIdentity ==
    [][\A e \in Identifiers :
        (Called("process_personal_info", e) /\ EmployeHolds(e, response'.arg))
        => /\ response'.status = HTTP_409
           /\ UNCHANGED <<verification_code, pending_registration>>]_vars

\* C17: get_pending_state changes nothing, and for an unexpired record it
\* answers the step of the first test that applies, in the order: status
\* pending_fingerprint_validation, role admin, company_info present, status
\* email_verified, none.
C17_StepByPriority ==
    [][\A e \in Identifiers :
        Called("get_pending_state", e)
        => /\ UNCHANGED <<now, db, fanout>>
           /\ HasPending(e)
              => /\ response'.status = HTTP_200
                 /\ response'.step =
                       IF StatusOf(e) = "pending_fingerprint_validation"
                       THEN "fingerprint_validation"
                       ELSE IF pending_registration[e].role_assigned = "admin"
                       THEN "final"
                       ELSE IF pending_registration[e].company_info_json # NoCompanyInfo
                       THEN "verify_company"
                       ELSE IF StatusOf(e) = "email_verified"
                       THEN "company_info"
                       ELSE "personal_info"]_vars

\* C17 witness: the answer was "final" for a record to which the three
\* tests of lower priority apply as well.
C17_Witness ==
    /\ response.op = "get_pending_state"
    /\ response.step = "final"
    /\ HasPending(response.email)
    /\ StatusOf(response.email) = "email_verified"
    /\ pending_registration[response.email].company_info_json # NoCompanyInfo
    /\ pending_registration[response.email].role_assigned = "admin"

\* C18: get_verification_code returns the stored code when a row exists
\* for the lowercased identifier and now < expires_at, returns None
\* otherwise, and leaves the table as it is.
C18_CodeReadableUntilExpiry ==
    [][\A i \in Identifiers :
        Called("get_verification_code", i)
        => /\ verification_code' = verification_code
           /\ response'.step =
                 IF i \in DOMAIN verification_code
                    /\ now < verification_code[i].expires_at
                 THEN verification_code[i].code
                 ELSE None]_vars

\* C18 witness: a read with an address in upper case, at the very instant of
\* expiry of the row of its lowercased form, has returned None and the row is
\* still stored.
C18_Witness ==
    /\ response.op = "get_verification_code"
    /\ response.arg # response.email
    /\ response.step = None
    /\ response.email \in DOMAIN verification_code
    /\ verification_code[response.email].expires_at = now

----------------------------------------------------------------------------
\* Vocabulary of the fan-out properties.

Elems(list) == {list[k] : k \in 1..Len(list)}

\* The connections registered under a company_id in one manager's dict.
SubscribersOf(connections, company_id) ==
    IF company_id \in DOMAIN connections
    THEN Elems(connections[company_id])
    ELSE {}

\* Slot p makes a turn of its send loop, and the turn is the last one.
PassTurn(p) == passes[p] # Idle /\ passes'[p] # passes[p]

PassEnds(p) ==
    /\ PassTurn(p)
    /\ passes'[p] = Idle \/ passes'[p].manager # passes[p].manager

\* The connections whose send raised in the call of slot p, the turn being
\* made included.
Raised(p) ==
    Elems(passes[p].disconnected) \cup
       (IF response'.step \in {"raised", "raised_again"}
        THEN {response'.arg} ELSE {})

\* C19: a publish to a channel that has subscribers (by POST /notify or by
\* the creation of an employee) enters the send loop with exactly the
\* connections subscribed at that moment; every turn of the
\* loop tries the next of them, up to the last one; a connection that is not
\* subscribed when the publish starts is not tried by it, and a connection
\* whose send raised is not subscribed any more when the call returns.
C19_SubscribersAreSentEvents ==
    [][/\ \A c \in {Lower(t) : t \in TokenCompanies} :
             (Called("notify", c) /\ SubscribersOf(active_connections["web"], c) # {})
             => \E p \in DOMAIN passes :
                   passes[p] = Idle /\ passes'[p] # Idle
                   /\ passes'[p].company_id = c
       /\ \A emp \in employe' \ employe :
             SubscribersOf(active_connections["web"], Lower(emp.idEntreprise)) # {}
             => \E p \in DOMAIN passes :
                   passes[p] = Idle /\ passes'[p] # Idle
                   /\ passes'[p].company_id = Lower(emp.idEntreprise)
                   /\ passes'[p].event = "EMPLOYE_CREATED"
       /\ \A p \in DOMAIN passes :
             /\ (passes[p] = Idle /\ passes'[p] # Idle)
                => /\ passes'[p].sent = 0
                   /\ Elems(passes'[p].snapshot) =
                         SubscribersOf(active_connections[passes'[p].manager],
                                       passes'[p].company_id)
             /\ PassTurn(p)
                => /\ response'.op = "send_to_company"
                   /\ response'.arg = passes[p].snapshot[passes[p].sent + 1]
                   /\ ~PassEnds(p)
                      => /\ passes'[p].snapshot = passes[p].snapshot
                         /\ passes'[p].sent = passes[p].sent + 1
                   /\ PassEnds(p)
                      => /\ passes[p].sent + 1 = Len(passes[p].snapshot)
                         /\ Raised(p) \cap
                               SubscribersOf(active_connections'[passes[p].manager],
                                             passes[p].company_id) = {}]_vars

\* C19 witness: a publish has just entered its loop, and a connection of the
\* same company that is still open but was unsubscribed after a failed send
\* is not among the connections it will try.
C19_Witness ==
    /\ response.op = "notify"
    /\ \E p \in DOMAIN passes, w \in DOMAIN websockets :
          /\ passes[p] # Idle
          /\ passes[p].sent = 0
          /\ passes[p].company_id = response.email
          /\ websockets[w] = response.email
          /\ w \notin Elems(passes[p].snapshot)
          /\ w \notin SubscribersOf(active_connections["web"], response.email)

\* C20: a send_to_company call returns normally at every turn; it leaves
\* the registered connections alone until its last turn, has then tried
\* every connection of its snapshot, and unsubscribes exactly the
\* connections whose send raised: the other connections of the channel, the
\* other channels and the other manager stay as they are.
C20_PublishPrunesOnlyFailed ==
    [][\A p \in DOMAIN passes :
          PassTurn(p)
          => /\ response'.status = HTTP_200
             /\ ~PassEnds(p) => active_connections' = active_connections
             /\ PassEnds(p)
                => /\ passes[p].sent + 1 = Len(passes[p].snapshot)
                   /\ \A m \in Managers, c \in {Lower(t) : t \in TokenCompanies} :
                         SubscribersOf(active_connections'[m], c) =
                            IF m = passes[p].manager /\ c = passes[p].company_id
                            THEN SubscribersOf(active_connections[m], c) \ Raised(p)
                            ELSE SubscribersOf(active_connections[m], c)]_vars

\* C20 witness: a call has returned after a send that raised and a later
\* send that did not; of the two connections, both still open, the first has
\* been unsubscribed and the second is still registered.
C20_Witness ==
    /\ response.op = "send_to_company"
    /\ response.step = "sent_after_raise"
    /\ \A p \in DOMAIN passes : passes[p] = Idle
    /\ \E w1, w2 \in DOMAIN websockets :
          /\ w1 # w2
          /\ response.arg = w2
          /\ websockets[w1] = response.email
          /\ websockets[w2] = response.email
          /\ w1 \notin SubscribersOf(active_connections["web"], response.email)
          /\ w2 \in SubscribersOf(active_connections["web"], response.email)

----------------------------------------------------------------------------
\* The number of places, over all the lists of one manager, that hold a
\* connection.
Registrations(connections, websocket) ==
    Cardinality(UNION {{<<c, k>> : k \in {j \in 1..Len(connections[c]) :
                                              connections[c][j] = websocket}} :
                       c \in DOMAIN connections})

\* C21: after every step each connection is held at most once by a manager,
\* all channels together; a disconnect (by the endpoint when the client goes
\* away, or by a send_to_company call for the connections whose send raised)
\* answers normally and leaves the connection unregistered under its channel,
\* and when the connection was not registered there (the call is a repeat,
\* or the channel is unknown) it changes nothing.
C21_RegisteredOnceDisconnectIdempotent ==
    [][/\ \A m \in Managers, w \in Sockets :
             Registrations(active_connections'[m], w) <= 1
       /\ \A w \in Sockets :
             (response'.op = "WebSocketDisconnect" /\ response'.arg = w)
             => /\ response'.status = HTTP_200
                /\ w \notin SubscribersOf(active_connections'["web"], response'.email)
                /\ w \notin SubscribersOf(active_connections["web"], response'.email)
                   => active_connections' = active_connections
       /\ \A p \in DOMAIN passes :
             PassEnds(p)
             => /\ response'.status = HTTP_200
                /\ Raised(p) \cap
                      SubscribersOf(active_connections'[passes[p].manager],
                                    passes[p].company_id) = {}
                /\ Raised(p) \cap
                      SubscribersOf(active_connections[passes[p].manager],
                                    passes[p].company_id) = {}
                   => active_connections' = active_connections]_vars

\* C21 witness: a send_to_company call has just disconnected a connection
\* whose send raised, after the client of that connection had gone away and
\* the endpoint had disconnected it already; it was the last connection of
\* its channel, so the repeated call named a channel the manager does not
\* know any more.
C21_Witness ==
    /\ response.op = "send_to_company"
    /\ response.step = "raised"
    /\ \A p \in DOMAIN passes : passes[p] = Idle
    /\ response.arg \notin DOMAIN websockets
    /\ response.email \notin DOMAIN active_connections["web"]

\* C22: after every step no company_id of a manager maps to an empty list;
\* a disconnect that takes the last connection of a channel, by the endpoint
\* or at the end of a send_to_company call, removes the entry of the channel;
\* a publish answers normally and leaves the entries of both managers as
\* they are, so that a channel without subscribers gets no entry.
C22_NoEmptyChannel ==
    [][/\ \A m \in Managers : \A c \in DOMAIN active_connections'[m] :
             active_connections'[m][c] # <<>>
       /\ \A w \in Sockets :
             (/\ response'.op = "WebSocketDisconnect"
              /\ response'.arg = w
              /\ SubscribersOf(active_connections["web"], response'.email) = {w})
             => response'.email \notin DOMAIN active_connections'["web"]
       /\ \A p \in DOMAIN passes :
             (/\ PassEnds(p)
              /\ SubscribersOf(active_connections[passes[p].manager],
                               passes[p].company_id) \subseteq Raised(p))
             => passes[p].company_id \notin
                   DOMAIN active_connections'[passes[p].manager]
       /\ response'.op = "notify"
          => /\ response'.status = HTTP_200
             /\ active_connections' = active_connections
       /\ employe' # employe
          => /\ response'.status \in {HTTP_200, HTTP_201}
             /\ active_connections' = active_connections]_vars

\* C22 witness: POST /notify has been answered for a company whose channel
\* has no entry, while a connection of that company is still open: it was
\* the last of its channel and was disconnected after a failed send.
C22_Witness ==
    /\ response.op = "notify"
    /\ response.status = HTTP_200
    /\ \A p \in DOMAIN passes : passes[p] = Idle
    /\ \A m \in Managers : response.email \notin DOMAIN active_connections[m]
    /\ \E w \in DOMAIN websockets : websockets[w] = response.email

\* A send_to_company call, as recorded in "called".
Call(manager, company_id, event) ==
    [manager |-> manager, company_id |-> company_id, event |-> event]

\* What a publish for company_id must have called before its step ends:
\* the web manager, and the desktop manager as well when the web manager has
\* no connection to wait for.
CallsOfPublish(company_id, event) ==
    IF company_id \in DOMAIN active_connections["web"]
    THEN <<Call("web", company_id, event)>>
    ELSE <<Call("web", company_id, event), Call("desktop", company_id, event)>>

\* C23: POST /notify, the creation and the deletion of an employee call
\* send_to_company of the web manager with the lowercased company id; as
\* soon as that call returns, at once or after the last send of its loop and
\* whether or not sends raised, send_to_company of the desktop manager is
\* called with the same company id and event; every one of these steps
\* answers normally.
C23_BothManagersTargeted ==
    [][/\ response'.op = "notify"
          => /\ called' = CallsOfPublish(response'.email, "notification")
             /\ response'.status = HTTP_200
       /\ \A emp \in employe' \ employe :
             /\ called' = CallsOfPublish(Lower(emp.idEntreprise), "EMPLOYE_CREATED")
             /\ response'.status = HTTP_201
       /\ \A emp \in employe \ employe' :
             /\ called' = CallsOfPublish(Lower(emp.idEntreprise), "NOTIFICATION_REMOVED")
             /\ response'.status = HTTP_200
       /\ \A p \in DOMAIN passes :
             (PassEnds(p) /\ passes[p].manager = "web")
             => /\ called' = <<Call("desktop", passes[p].company_id, passes[p].event)>>
                /\ response'.status = HTTP_200]_vars

\* C23 witness: the web call of a deletion notice has returned after a send
\* that raised, and the desktop manager has been called for the same company
\* and event.
C23_Witness ==
    /\ response.op = "send_to_company"
    /\ response.step \in {"raised", "raised_again"}
    /\ called = <<Call("desktop", response.email, "NOTIFICATION_REMOVED")>>
    /\ published.event = "NOTIFICATION_REMOVED"
    /\ \A p \in DOMAIN passes : passes[p] = Idle

\* C24 (as claimed): cleanup_expired_entries deletes every verification code
\* and every pending registration with expires_at <= now, the rows with
\* expires_at = now included, and keeps every row with expires_at > now
\* unchanged: each row left is one that its get would still return.
C24_SweepDeletesExpired ==
    [][response'.op = "cleanup_expired_entries"
        => /\ \A e \in Identifiers :
                /\ e \in DOMAIN verification_code'
                   <=> (e \in DOMAIN verification_code
                        /\ verification_code[e].expires_at > now)
                /\ e \in DOMAIN verification_code'
                   => verification_code'[e] = verification_code[e]
           /\ \A e \in Identifiers :
                /\ e \in DOMAIN pending_registration'
                   <=> (e \in DOMAIN pending_registration
                        /\ pending_registration[e].expires_at > now)
                /\ e \in DOMAIN pending_registration'
                   => pending_registration'[e] = pending_registration[e]]_vars

\* C25: a process_personal_info or process_company_info call whose email
\* dispatch fails answers 500 and leaves what it wrote before the dispatch:
\* the code of the address, valid for CODE_TTL_MINUTES, and the pending
\* record, with the submitted company_info for the company step.  A call of
\* either step goes as far as its writes only when the address it would send
\* to has no unexpired code; otherwise it is refused and writes nothing.
C25_MailFailureKeepsWrites ==
    [][\A e \in Identifiers :
        /\ (Called("process_personal_info", e) /\ response'.status = HTTP_500)
           => /\ e \in DOMAIN verification_code'
              /\ verification_code'[e].expires_at = now + CODE_TTL_MINUTES
              /\ e \in DOMAIN pending_registration'
              /\ pending_registration'[e].expires_at = now + CODE_TTL_MINUTES
              /\ pending_registration'[e].personal_info_json =
                    [employeeId |-> response'.arg, status |-> None]
        /\ (Called("process_company_info", e) /\ response'.status = HTTP_500)
           => /\ e \in DOMAIN pending_registration'
              /\ pending_registration'[e].company_info_json.companyName = response'.arg
              /\ \E c \in Identifiers :
                    /\ pending_registration'[e].company_info_json.companyContactEmail = c
                    /\ c \in DOMAIN verification_code'
                    /\ verification_code'[c].expires_at = now + CODE_TTL_MINUTES
        /\ (Called("process_personal_info", e) /\ HasCode(e))
           => /\ response'.status \in {HTTP_400, HTTP_429}
              /\ verification_code' = verification_code
              /\ pending_registration' = pending_registration
        /\ (Called("process_company_info", e)
              /\ response'.status \notin {HTTP_400, HTTP_429})
           => ~HasCode(pending_registration'[e].company_info_json.companyContactEmail)]_vars

\* C25 witness: process_company_info has answered 500; the pending record
\* holds the submitted company_info and the code of the contact address is
\* stored and not expired.
C25_Witness ==
    /\ response.op = "process_company_info"
    /\ response.status = HTTP_500
    /\ HasPending(response.email)
    /\ pending_registration[response.email].company_info_json.companyName = response.arg
    /\ HasCode(pending_registration[response.email].company_info_json.companyContactEmail)

\* The connection is in some list of the web manager.
RegisteredInWeb(websocket) ==
    \E c \in DOMAIN active_connections["web"] :
        websocket \in SubscribersOf(active_connections["web"], c)

\* C26 (as claimed): the /ws endpoint registers a connection in the web
\* manager only when its token carries a company id, and then under that id
\* in lower case; with a token without company id it closes the connection
\* with code 4401 and registers nothing; and a registered connection whose
\* client is gone is eventually not registered any more.
C26_RegisteredWithTenantUntilClientLeaves ==
    /\ [][\A w \in Sockets :
            /\ (~RegisteredInWeb(w) /\ RegisteredInWeb(w)')
               => /\ response'.op = "websocket_endpoint"
                  /\ response'.arg = w
                  /\ response'.email \in {Lower(t) : t \in TokenCompanies \ {""}}
                  /\ w \in SubscribersOf(active_connections'["web"], response'.email)
            /\ (response'.op = "websocket_endpoint" /\ response'.arg = w
                  /\ response'.email = "")
               => /\ response'.status = WS_CLOSE_4401
                  /\ active_connections' = active_connections
                  /\ websockets' = websockets]_vars
    /\ \A w \in Sockets :
          (RegisteredInWeb(w) /\ w \notin DOMAIN websockets) ~> ~RegisteredInWeb(w)

\* The channel keys of the model.
Channels == {Lower(t) : t \in TokenCompanies \ {""}} \cup {Lower(None)}

\* C27: a send_to_company call for a company takes, when it starts, the
\* connections registered under that company's key and none registered under
\* another key; each of its sends goes to a connection that is registered
\* under no other key and that, while it is open, belongs to that company;
\* and no step of the call changes the list of another key, in either
\* manager.
C27_FanoutStaysInsideCompany ==
    [][\A p \in DOMAIN passes :
          /\ (passes[p] = Idle /\ passes'[p] # Idle)
             => /\ Elems(passes'[p].snapshot) =
                      SubscribersOf(active_connections[passes'[p].manager],
                                    passes'[p].company_id)
                /\ \A m \in Managers, c \in Channels \ {passes'[p].company_id} :
                      Elems(passes'[p].snapshot)
                         \cap SubscribersOf(active_connections[m], c) = {}
          /\ PassTurn(p)
             => /\ response'.email = passes[p].company_id
                /\ \A m \in Managers, c \in Channels \ {passes[p].company_id} :
                      /\ response'.arg \notin SubscribersOf(active_connections[m], c)
                      /\ c \in DOMAIN active_connections'[m]
                         <=> c \in DOMAIN active_connections[m]
                      /\ c \in DOMAIN active_connections[m]
                         => active_connections'[m][c] = active_connections[m][c]
                /\ response'.arg \in DOMAIN websockets
                   => websockets[response'.arg] = passes[p].company_id]_vars

\* C27 witness: a call for one company has returned after a send that
\* raised and has disconnected that connection, while a connection of
\* another company is open and still registered under its own key.
C27_Witness ==
    /\ response.op = "send_to_company"
    /\ response.step = "raised"
    /\ \A p \in DOMAIN passes : passes[p] = Idle
    /\ ~RegisteredInWeb(response.arg)
    /\ \E w \in DOMAIN websockets :
          /\ websockets[w] # response.email
          /\ w \in SubscribersOf(active_connections["web"], websockets[w])

\* C28 (as claimed, for a completion that directly follows the successful
\* verify_company_email of the same user, when the company_info of the
\* pending record is exactly what the code has proven): the Company that
\* complete_registration persists has the companyName and the contact email
\* of that company_info.
C28_CompanyFromVerifiedInfo ==
    [][\A e \in Identifiers :
        (/\ response.op = "verify_company_email"
         /\ response.status = HTTP_200
         /\ response.email = e
         /\ Called("complete_registration", e))
        => \A c \in entreprise' \ entreprise :
              /\ c.nom = pending_registration[e].company_info_json.companyName
              /\ c.contact_email =
                    Lower(pending_registration[e].company_info_json.companyContactEmail)]_vars

\* The five steps of the registration workflow.
RegistrationSteps ==
    {"process_personal_info", "verify_user_email", "process_company_info",
     "verify_company_email", "complete_registration"}

\* C29 (as claimed): while a pending record has the status
\* pending_fingerprint_validation and is not expired, no registration step,
\* for whatever email, changes its status, its company_info or its
\* role_assigned.
C29_FingerprintRecordFrozen ==
    [][\A e \in Identifiers :
        (/\ HasPending(e)
         /\ StatusOf(e) = "pending_fingerprint_validation"
         /\ response'.op \in RegistrationSteps)
        => /\ e \in DOMAIN pending_registration'
           /\ pending_registration'[e].personal_info_json.status =
                 "pending_fingerprint_validation"
           /\ pending_registration'[e].company_info_json =
                 pending_registration[e].company_info_json
           /\ pending_registration'[e].role_assigned =
                 pending_registration[e].role_assigned]_vars

\* C30 (as claimed): a complete_registration call that does not answer with
\* success has persisted no company, no position and no employee and has
\* left the pending registrations as they were.
C30_CompleteRegistrationAllOrNothing ==
    [][\A e \in Identifiers :
        (Called("complete_registration", e)
           /\ response'.status \notin {HTTP_200, HTTP_201})
        => /\ entreprise' = entreprise
           /\ poste' = poste
           /\ employe' = employe
           /\ pending_registration' = pending_registration]_vars

====
